---- MODULE Spec2Model ----
(***************************************************************************)
(* Model of the generation pipelines of my-agent-workbench:                *)
(*   respondMention (src/src/services/mention.ts, lines 584-678) and       *)
(*   planHangout    (src/src/services/hangout.ts, lines 115-161).          *)
(*                                                                         *)
(* Texts are sequences of characters, each character a string.  The       *)
(* Japanese characters of the source are written with ASCII names, one    *)
(* name per character:                                                     *)
(*   marker (5 characters)  "kome" "zan" "tei" "kai" "tou"                 *)
(*   suffix (6 characters)  "lpar" "tsui" "ki" "yo" "tei" "rpar"           *)
(* (the character "tei" occurs in both, as in the source; "lpar" and      *)
(* "rpar" are the full-width parentheses), the bullet U+2022 is "bullet". *)
(* White space is " " and "\n".                                            *)
(***************************************************************************)
EXTENDS Integers, Sequences, FiniteSets, TLC

(***************************************************************************)
(* Bounds of the model.                                                    *)
(***************************************************************************)
\* largest value of CODEX_REFINE_MAX that is tried
MaxEnvMax == 2

(***************************************************************************)
(* Program constants (mention.ts 327-330).                                 *)
(***************************************************************************)
INCOMPLETE_MARKER == <<"kome", "zan", "tei", "kai", "tou">>
INCOMPLETE_SUFFIX == <<"lpar", "tsui", "ki", "yo", "tei", "rpar">>
DEFAULT_MAX_REFINES == 4
DRAFT_COMPLETENESS == 50

(***************************************************************************)
(* String primitives of the JavaScript runtime, on character sequences.    *)
(***************************************************************************)
\* the class \s restricted to the modelled alphabet
IsSpace(c) == c \in {" ", "\n"}

\* s.slice(i - 1): the characters of s from position i (1-based) on
Drop(s, i) == SubSeq(s, i, Len(s))

\* does the literal lit occur in s at position i
MatchAt(s, i, lit) ==
  /\ i >= 1
  /\ i + Len(lit) - 1 <= Len(s)
  /\ SubSeq(s, i, i + Len(lit) - 1) = lit

\* String.prototype.includes
Includes(s, lit) == \E i \in 1..(Len(s) + 1) : MatchAt(s, i, lit)

\* number of white-space characters of s starting at position i
RECURSIVE SpaceRun(_, _)
SpaceRun(s, i) ==
  IF i <= Len(s) /\ IsSpace(s[i]) THEN 1 + SpaceRun(s, i + 1) ELSE 0

\* number of "\n" characters of s starting at position i
RECURSIVE NewlineRun(_, _)
NewlineRun(s, i) ==
  IF i <= Len(s) /\ s[i] = "\n" THEN 1 + NewlineRun(s, i + 1) ELSE 0

RECURSIVE TrimStart(_)
TrimStart(s) ==
  IF s # <<>> /\ IsSpace(s[1]) THEN TrimStart(Tail(s)) ELSE s

RECURSIVE TrimEnd(_)
TrimEnd(s) ==
  IF s # <<>> /\ IsSpace(s[Len(s)]) THEN TrimEnd(SubSeq(s, 1, Len(s) - 1)) ELSE s

\* String.prototype.trim
Trim(s) == TrimEnd(TrimStart(s))

\* s.replace(/\n{3,}/g, "\n\n")
RECURSIVE CollapseNewlines(_)
CollapseNewlines(s) ==
  IF s = <<>> THEN <<>>
  ELSE LET n == NewlineRun(s, 1) IN
       IF n >= 3 THEN <<"\n", "\n">> \o CollapseNewlines(Drop(s, n + 1))
       ELSE <<s[1]>> \o CollapseNewlines(Tail(s))

\* s.replace(/\s{2,}/g, " ")
RECURSIVE CollapseSpaces(_)
CollapseSpaces(s) ==
  IF s = <<>> THEN <<>>
  ELSE LET n == SpaceRun(s, 1) IN
       IF n >= 2 THEN <<" ">> \o CollapseSpaces(Drop(s, n + 1))
       ELSE <<s[1]>> \o CollapseSpaces(Tail(s))

\* s.replace(/\s<bullet>/g, "\n<bullet>")
RECURSIVE BulletsOnNewLine(_)
BulletsOnNewLine(s) ==
  IF s = <<>> THEN <<>>
  ELSE IF Len(s) >= 2 /\ IsSpace(s[1]) /\ s[2] = "bullet"
       THEN <<"\n", "bullet">> \o BulletsOnNewLine(Drop(s, 3))
       ELSE <<s[1]>> \o BulletsOnNewLine(Tail(s))

(***************************************************************************)
(* toSlackMarkdown and formatMentionReply.  The rewrites of headings,      *)
(* bold, list dashes, links, empty parentheses and numbered lists need one *)
(* of the characters # * - [ ( or a digit, none of which is in the         *)
(* modelled alphabet of generator outputs: on these texts they change      *)
(* nothing, and what is left of toSlackMarkdown is its trim.               *)
(***************************************************************************)
toSlackMarkdown(text) == Trim(text)

formatMentionReply(text) ==
  Trim(CollapseNewlines(BulletsOnNewLine(toSlackMarkdown(text))))

(***************************************************************************)
(* INCOMPLETE_MARKER_PATTERN: the marker, \s*, then the suffix with "?"    *)
(* binding to its last character only: the suffix without its closing      *)
(* parenthesis is required, the closing parenthesis is optional.           *)
(* PatternEnd(s, i) is the position after the match that starts at i, or 0 *)
(* when the pattern does not match at i.                                   *)
(***************************************************************************)
SuffixHead == SubSeq(INCOMPLETE_SUFFIX, 1, Len(INCOMPLETE_SUFFIX) - 1)
SuffixLast == INCOMPLETE_SUFFIX[Len(INCOMPLETE_SUFFIX)]

PatternEnd(s, i) ==
  IF ~MatchAt(s, i, INCOMPLETE_MARKER) THEN 0
  ELSE LET j == i + Len(INCOMPLETE_MARKER)
           k == j + SpaceRun(s, j)
       IN IF ~MatchAt(s, k, SuffixHead) THEN 0
          ELSE LET e == k + Len(SuffixHead) IN
               IF e <= Len(s) /\ s[e] = SuffixLast THEN e + 1 ELSE e

\* s.replace(INCOMPLETE_MARKER_PATTERN, "")
RECURSIVE RemovePattern(_)
RemovePattern(s) ==
  IF s = <<>> THEN <<>>
  ELSE LET e == PatternEnd(s, 1) IN
       IF e > 0 THEN RemovePattern(Drop(s, e))
       ELSE <<s[1]>> \o RemovePattern(Tail(s))

stripIncompleteMarker(text) ==
  Trim(CollapseNewlines(CollapseSpaces(RemovePattern(text))))

(***************************************************************************)
(* Optional values: undefined, or a defined string.                        *)
(***************************************************************************)
Undefined == [defined |-> FALSE, value |-> <<>>]
Str(v) == [defined |-> TRUE, value |-> v]

\* x ?? d
Coalesce(x, d) == IF x.defined THEN x ELSE d

\* x || "" and x ?? "" read as a string
OrEmpty(x) == IF x.defined THEN x.value ELSE <<>>

(***************************************************************************)
(* Number.parseInt(s, 10): leading white space, an optional sign, then the *)
(* longest run of decimal digits; NaN when there is no digit.              *)
(***************************************************************************)
Digits == <<"0", "1", "2", "3", "4", "5", "6", "7", "8", "9">>
IsDigit(c) == \E d \in 1..10 : Digits[d] = c
DigitValue(c) == (CHOOSE d \in 1..10 : Digits[d] = c) - 1

RECURSIVE DigitRun(_, _)
DigitRun(s, acc) ==
  IF s # <<>> /\ IsDigit(s[1])
  THEN DigitRun(Tail(s), 10 * acc + DigitValue(s[1]))
  ELSE acc

NaN == [nan |-> TRUE, n |-> 0]

parseInt(str) ==
  LET t == TrimStart(str)
      neg == t # <<>> /\ t[1] = "-"
      u == IF t # <<>> /\ t[1] \in {"-", "+"} THEN Tail(t) ELSE t
  IN IF u = <<>> \/ ~IsDigit(u[1]) THEN NaN
     ELSE [nan |-> FALSE, n |-> IF neg THEN 0 - DigitRun(u, 0) ELSE DigitRun(u, 0)]

\* Number.isFinite on the result of parseInt
isFinite(x) == ~x.nan

(***************************************************************************)
(* getRefineConfig (mention.ts 391-404), reading the process environment.  *)
(***************************************************************************)
\* getRefineConfig taking a configured count of 0 as it stands
getRefineConfigZeroAllowed(e) ==
  LET enabled ==
        \/ ~e.CODEX_REFINE.defined
        \/ /\ e.CODEX_REFINE.value # <<"0">>
           /\ e.CODEX_REFINE.value # <<"f", "a", "l", "s", "e">>
      envMax == parseInt(OrEmpty(e.CODEX_REFINE_MAX))
      maxRefines ==
        IF enabled /\ isFinite(envMax) /\ envMax.n >= 0 THEN envMax.n
        ELSE IF enabled THEN DEFAULT_MAX_REFINES
        ELSE 0
  IN [enabled |-> enabled, maxRefines |-> maxRefines, totalPasses |-> 1 + maxRefines]

\* getRefineConfig that takes the configured count whatever the toggle
getRefineConfigIgnoresToggle(e) ==
  LET enabled ==
        \/ ~e.CODEX_REFINE.defined
        \/ /\ e.CODEX_REFINE.value # <<"0">>
           /\ e.CODEX_REFINE.value # <<"f", "a", "l", "s", "e">>
      envMax == parseInt(OrEmpty(e.CODEX_REFINE_MAX))
      maxRefines ==
        IF isFinite(envMax) /\ envMax.n > 0 THEN envMax.n
        ELSE IF enabled THEN DEFAULT_MAX_REFINES
        ELSE 0
  IN [enabled |-> enabled, maxRefines |-> maxRefines, totalPasses |-> 1 + maxRefines]

getRefineConfig(e) ==
  LET enabled ==
        \/ ~e.CODEX_REFINE.defined
        \/ /\ e.CODEX_REFINE.value # <<"0">>
           /\ e.CODEX_REFINE.value # <<"f", "a", "l", "s", "e">>
      envMax == parseInt(OrEmpty(e.CODEX_REFINE_MAX))
      maxRefines ==
        IF enabled /\ isFinite(envMax) /\ envMax.n > 0 THEN envMax.n
        ELSE IF enabled THEN DEFAULT_MAX_REFINES
        ELSE 0
  IN [enabled |-> enabled, maxRefines |-> maxRefines, totalPasses |-> 1 + maxRefines]

(***************************************************************************)
(* getTargetCompleteness and buildMeta (mention.ts 356-371).  Math.round   *)
(* rounds halves up; the quotient is computed exactly, in integers.        *)
(***************************************************************************)
Min(a, b) == IF a < b THEN a ELSE b
Max(a, b) == IF a > b THEN a ELSE b

\* Math.round(num / den) for num >= 0, den > 0
RoundDiv(num, den) == (2 * num + den) \div (2 * den)

\* getTargetCompleteness with Math.floor in the place of Math.round
getTargetCompletenessFloor(pass, totalPasses) ==
  IF totalPasses <= 1 THEN 100
  ELSE LET clampedPass == Min(Max(pass, 1), totalPasses)
           span == 100 - DRAFT_COMPLETENESS
       IN (DRAFT_COMPLETENESS * (totalPasses - 1) + span * (clampedPass - 1))
            \div (totalPasses - 1)

getTargetCompleteness(pass, totalPasses) ==
  IF totalPasses <= 1 THEN 100
  ELSE LET clampedPass == Min(Max(pass, 1), totalPasses)
           span == 100 - DRAFT_COMPLETENESS
       IN RoundDiv(DRAFT_COMPLETENESS * (totalPasses - 1) + span * (clampedPass - 1),
                   totalPasses - 1)

\* buildMeta flagging a pass final only beyond the last pass
buildMetaStrictFinal(pass, totalPasses) ==
  [pass |-> pass,
   totalPasses |-> totalPasses,
   targetPercent |-> getTargetCompleteness(pass, totalPasses),
   isFinal |-> pass > totalPasses]

buildMeta(pass, totalPasses) ==
  [pass |-> pass,
   totalPasses |-> totalPasses,
   targetPercent |-> getTargetCompleteness(pass, totalPasses),
   isFinal |-> pass >= totalPasses]

(***************************************************************************)
(* Errors and diagnoseFailure (mention.ts 566-582, hangout.ts 97-113).     *)
(* An error has a message and an optional stderr; both are texts of        *)
(* one-letter characters.                                                  *)
(***************************************************************************)
UpperCase == <<"A", "B", "C", "D", "E", "F", "G", "H", "I", "J", "K", "L", "M",
               "N", "O", "P", "Q", "R", "S", "T", "U", "V", "W", "X", "Y", "Z">>
LowerCase == <<"a", "b", "c", "d", "e", "f", "g", "h", "i", "j", "k", "l", "m",
               "n", "o", "p", "q", "r", "s", "t", "u", "v", "w", "x", "y", "z">>

\* String.prototype.toLowerCase
toLowerCase(s) ==
  [i \in 1..Len(s) |->
     IF \E k \in 1..26 : UpperCase[k] = s[i]
     THEN LowerCase[CHOOSE k \in 1..26 : UpperCase[k] = s[i]]
     ELSE s[i]]

\* the hint texts, without the back quotes of the source
HintNotFound == "Codex CLI not found. Make sure codex is installed and on PATH."
HintAuth == "Codex CLI authentication required. Run codex login and try again."
HintTimeout == "Codex timed out. Shorten the request or increase the timeout."
HintGeneric == "Codex execution failed. Check server stderr for details."

\* diagnoseFailure testing for the time-out before the authentication keywords
diagnoseFailureTimeoutFirst(err) ==
  LET msg == toLowerCase(err.message \o <<"\n">> \o OrEmpty(err.stderr)) IN
  IF \/ Includes(msg, <<"e", "n", "o", "e", "n", "t">>)
     \/ Includes(msg, <<"s", "p", "a", "w", "n", " ", "c", "o", "d", "e", "x">>)
  THEN HintNotFound
  ELSE IF Includes(msg, <<"t", "i", "m", "e", "d", " ", "o", "u", "t">>)
  THEN HintTimeout
  ELSE IF \/ Includes(msg, <<"l", "o", "g", "i", "n">>)
          \/ Includes(msg, <<"n", "o", "t", " ", "l", "o", "g", "g", "e", "d", " ", "i", "n">>)
          \/ Includes(msg, <<"a", "u", "t", "h">>)
  THEN HintAuth
  ELSE HintGeneric

diagnoseFailure(err) ==
  LET msg == toLowerCase(err.message \o <<"\n">> \o OrEmpty(err.stderr)) IN
  IF \/ Includes(msg, <<"e", "n", "o", "e", "n", "t">>)
     \/ Includes(msg, <<"s", "p", "a", "w", "n", " ", "c", "o", "d", "e", "x">>)
  THEN HintNotFound
  ELSE IF \/ Includes(msg, <<"l", "o", "g", "i", "n">>)
          \/ Includes(msg, <<"n", "o", "t", " ", "l", "o", "g", "g", "e", "d", " ", "i", "n">>)
          \/ Includes(msg, <<"a", "u", "t", "h">>)
  THEN HintAuth
  ELSE IF Includes(msg, <<"t", "i", "m", "e", "d", " ", "o", "u", "t">>)
  THEN HintTimeout
  ELSE HintGeneric

(***************************************************************************)
(* Outcomes of one call of the generator boundary (runCodexExec, of        *)
(* integrations/codex_client.js): it resolves with the captured stdout or  *)
(* rejects with an error.                                                  *)
(***************************************************************************)
NoError == [message |-> <<>>, stderr |-> Undefined]
Ok(stdout) == [fails |-> FALSE, stdout |-> stdout, err |-> NoError]
Fail(err) == [fails |-> TRUE, stdout |-> <<>>, err |-> err]

\* new Error("Empty response from codex.") (mention.ts 602)
EmptyResponseError ==
  [message |-> <<"E", "m", "p", "t", "y", " ", "r", "e", "s", "p", "o", "n", "s", "e", " ",
                 "f", "r", "o", "m", " ", "c", "o", "d", "e", "x", ".">>,
   stderr |-> Undefined]

(***************************************************************************)
(* The frame of one request: the locals of respondMention / planHangout,   *)
(* the position of the request (pc), and a log of what it did: the         *)
(* boundary calls issued (calls), the number of outcomes received, the     *)
(* number of calls in flight, the progress events handed to the observer   *)
(* (events), whether an observer call is being awaited, how many returned  *)
(* and whether one threw, and the texts adopted as current (adopted).      *)
(* Fields that a result does not carry hold a placeholder.                 *)
(***************************************************************************)
NoConfig == [enabled |-> FALSE, maxRefines |-> 0, totalPasses |-> 1]
NoPlan == [valid |-> FALSE, candidates |-> -1, final_message |-> FALSE]
NoDebug == [error |-> Undefined, error2 |-> Undefined, stderr |-> Undefined]
NoResult ==
  [ok |-> FALSE, text |-> <<>>, refined |-> FALSE, raw |-> NoPlan, debug |-> NoDebug]

NewFrame(hasObserver) ==
  [pc |-> "idle",
   hasObserver |-> hasObserver,
   refineConfig |-> NoConfig,
   draftInternal |-> <<>>,
   draftDisplay |-> <<>>,
   currentInternal |-> <<>>,
   currentDisplay |-> <<>>,
   attempt |-> 0,
   e1 |-> NoError,
   failures |-> 0,
   calls |-> <<>>,
   received |-> 0,
   inflight |-> 0,
   events |-> <<>>,
   obsInFlight |-> FALSE,
   obsReturned |-> 0,
   obsThrew |-> FALSE,
   adopted |-> <<>>,
   result |-> NoResult]

\* await runCodexExec({ prompt, cwd }): the call is issued and the request suspends
IssueCall(L, call, pc) ==
  [L EXCEPT !.calls = Append(@, call), !.inflight = @ + 1, !.pc = pc]

\* the awaited call settles
Receive(L) == [L EXCEPT !.inflight = @ - 1, !.received = @ + 1]

\* await onProgress(event): the observer is called and the request suspends
CallObserver(L, event, pc) ==
  [L EXCEPT !.events = Append(@, event), !.obsInFlight = TRUE, !.pc = pc]

\* the awaited observer call settles
ObserverSettled(L, threw) ==
  [L EXCEPT !.obsInFlight = FALSE,
            !.obsReturned = @ + 1,
            !.obsThrew = @ \/ threw]

Return(L, result) == [L EXCEPT !.pc = "done", !.result = result]

(***************************************************************************)
(* respondMention (mention.ts 584-678), one operator per block of the      *)
(* function; each runs from a resumption point to the next await or        *)
(* return.                                                                 *)
(***************************************************************************)
ApologyMention == "Could not generate a reply. Cause: "

\* the outer catch (662-677)
HardFailure(L, e) ==
  Return(L, [ok |-> FALSE,
             text |-> <<ApologyMention, diagnoseFailure(e)>>,
             refined |-> FALSE,
             raw |-> NoPlan,
             debug |-> [error |-> Str(e.message), error2 |-> Undefined,
                        stderr |-> e.stderr]])

\* return { ok: true, text: draftDisplay, refined: false } (661)
ReturnDraft(L) ==
  Return(L, [ok |-> TRUE, text |-> L.draftDisplay, refined |-> FALSE,
             raw |-> NoPlan, debug |-> NoDebug])

\* return { ok: true, text: currentDisplay, refined: true } (645, 657)
ReturnCurrent(L) ==
  Return(L, [ok |-> TRUE, text |-> L.currentDisplay, refined |-> TRUE,
             raw |-> NoPlan, debug |-> NoDebug])

\* AfterLoop that returns the draft whatever was adopted
AfterLoopAlwaysDraft(L) == ReturnDraft(L)

\* after the loop (656-661)
AfterLoop(L) ==
  IF L.currentInternal # L.draftInternal THEN ReturnCurrent(L) ELSE ReturnDraft(L)

\* RefineCall that builds the prompt from the display text
RefineCallFromDisplay(L) ==
  LET pass == L.attempt + 2 IN
  [stage |-> "refine",
   draft |-> L.currentDisplay,
   meta |-> buildMeta(pass, L.refineConfig.totalPasses)]

\* the call of one refine pass (616-627)
RefineCall(L) ==
  LET pass == L.attempt + 2 IN
  [stage |-> "refine",
   draft |-> L.currentInternal,
   meta |-> buildMeta(pass, L.refineConfig.totalPasses)]

\* LoopHead with the loop test off by one: attempt <= maxRefines
LoopHeadOffByOne(L) ==
  IF L.attempt <= L.refineConfig.maxRefines
  THEN IssueCall(L, RefineCall(L), "refine_call")
  ELSE AfterLoop(L)

\* the loop test and the body up to its await (615-627)
LoopHead(L) ==
  IF L.attempt < L.refineConfig.maxRefines
  THEN IssueCall(L, RefineCall(L), "refine_call")
  ELSE AfterLoop(L)

\* the termination test that ends the body, and attempt += 1 (644-646, 615)
MarkerCheck(L) ==
  IF ~Includes(L.currentInternal, INCOMPLETE_MARKER)
  THEN ReturnCurrent(L)
  ELSE LoopHead([L EXCEPT !.attempt = @ + 1])

\* RefineCatch that rethrows to the outer catch instead of breaking
RefineCatchFatal(L) == HardFailure(L, NoError)

\* the inner catch: log and break (647-654)
RefineCatch(L) == AfterLoop(L)

\* RefinedEvent numbering the passes from the loop counter alone
RefinedEventOffByOne(L) ==
  LET pass == L.attempt + 1
      remaining == L.refineConfig.maxRefines - L.attempt - 1
  IN [stage |-> "refined",
      text |-> L.currentDisplay,
      pass |-> pass,
      totalPasses |-> L.refineConfig.totalPasses,
      pending |-> Includes(L.currentInternal, INCOMPLETE_MARKER) /\ remaining > 0]

\* RefinedEvent counting the pass it reports among the passes that remain
RefinedEventPendingOffByOne(L) ==
  LET pass == L.attempt + 2
      remaining == L.refineConfig.maxRefines - L.attempt
  IN [stage |-> "refined",
      text |-> L.currentDisplay,
      pass |-> pass,
      totalPasses |-> L.refineConfig.totalPasses,
      pending |-> Includes(L.currentInternal, INCOMPLETE_MARKER) /\ remaining > 0]

\* the refined event (634-642)
RefinedEvent(L) ==
  LET pass == L.attempt + 2
      remaining == L.refineConfig.maxRefines - L.attempt - 1
  IN [stage |-> "refined",
      text |-> L.currentDisplay,
      pass |-> pass,
      totalPasses |-> L.refineConfig.totalPasses,
      pending |-> Includes(L.currentInternal, INCOMPLETE_MARKER) /\ remaining > 0]

\* EmitRefined without the await: the observer is called and the loop goes on
EmitRefinedNoAwait(L) ==
  IF L.hasObserver
  THEN MarkerCheck([L EXCEPT !.events = Append(@, RefinedEvent(L)), !.obsInFlight = TRUE])
  ELSE MarkerCheck(L)

\* await onProgress?.(refined event) (635-643)
EmitRefined(L) ==
  IF L.hasObserver
  THEN CallObserver(L, RefinedEvent(L), "refine_observer")
  ELSE MarkerCheck(L)

\* Adopts comparing the display texts instead of the internal texts
AdoptsByDisplay(L, refinedInternal) ==
  refinedInternal # <<>> /\ stripIncompleteMarker(refinedInternal) # L.currentDisplay

\* is the formatted output of a refine pass adopted (631)
Adopts(L, refinedInternal) ==
  refinedInternal # <<>> /\ refinedInternal # L.currentInternal

\* AfterRefineCall that leaves the loop when a pass changed nothing
AfterRefineCallStallAbort(L, o) ==
  LET L1 == Receive(L) IN
  IF o.fails THEN RefineCatch(L1)
  ELSE LET refinedInternal == formatMentionReply(Trim(o.stdout)) IN
       IF Adopts(L1, refinedInternal)
       THEN EmitRefined([L1 EXCEPT !.currentInternal = refinedInternal,
                                   !.currentDisplay = stripIncompleteMarker(refinedInternal),
                                   !.adopted = Append(@, refinedInternal)])
       ELSE AfterLoop(L1)

\* AfterRefineCall that adopts the text and keeps the display text of before
AfterRefineCallStaleDisplay(L, o) ==
  LET L1 == Receive(L) IN
  IF o.fails THEN RefineCatch(L1)
  ELSE LET refinedInternal == formatMentionReply(Trim(o.stdout)) IN
       IF Adopts(L1, refinedInternal)
       THEN EmitRefined([L1 EXCEPT !.currentInternal = refinedInternal,
                                   !.adopted = Append(@, refinedInternal)])
       ELSE MarkerCheck(L1)

\* the refine call settled (623-654)
AfterRefineCall(L, o) ==
  LET L1 == Receive(L) IN
  IF o.fails THEN RefineCatch(L1)
  ELSE LET refinedInternal == formatMentionReply(Trim(o.stdout)) IN
       IF Adopts(L1, refinedInternal)
       THEN EmitRefined([L1 EXCEPT !.currentInternal = refinedInternal,
                                   !.currentDisplay = stripIncompleteMarker(refinedInternal),
                                   !.adopted = Append(@, refinedInternal)])
       ELSE MarkerCheck(L1)

\* the observer call of a refine pass settled (635-654)
AfterRefineObserver(L, threw) ==
  LET L1 == ObserverSettled(L, threw) IN
  IF threw THEN RefineCatch(L1) ELSE MarkerCheck(L1)

\* after the draft event (612-615, 661)
AfterDraftEvent(L) ==
  IF L.refineConfig.enabled
  THEN LoopHead([L EXCEPT !.currentInternal = L.draftInternal,
                          !.currentDisplay = L.draftDisplay,
                          !.attempt = 0])
  ELSE ReturnDraft(L)

\* the draft event (605-611)
DraftEvent(L) ==
  [stage |-> "draft",
   text |-> L.draftDisplay,
   pass |-> 1,
   totalPasses |-> L.refineConfig.totalPasses,
   pending |-> L.refineConfig.enabled /\ L.refineConfig.maxRefines > 0]

\* await onProgress?.(draft event) (605-611)
EmitDraft(L) ==
  IF L.hasObserver
  THEN CallObserver(L, DraftEvent(L), "draft_observer")
  ELSE AfterDraftEvent(L)

\* DraftRejected without the test for an empty draft
DraftRejectedNever(draftInternal) == FALSE

\* is the formatted draft rejected (601)
DraftRejected(draftInternal) == draftInternal = <<>>

\* AfterDraftCall that takes the formatted draft as its own display text
AfterDraftCallNoStrip(L, o) ==
  LET L1 == Receive(L) IN
  IF o.fails THEN HardFailure(L1, o.err)
  ELSE LET draftInternal == formatMentionReply(Trim(o.stdout)) IN
       IF DraftRejected(draftInternal) THEN HardFailure(L1, EmptyResponseError)
       ELSE EmitDraft([L1 EXCEPT !.draftInternal = draftInternal,
                                 !.draftDisplay = draftInternal,
                                 !.adopted = <<draftInternal>>])

\* the draft call settled (599-611)
AfterDraftCall(L, o) ==
  LET L1 == Receive(L) IN
  IF o.fails THEN HardFailure(L1, o.err)
  ELSE LET draftInternal == formatMentionReply(Trim(o.stdout)) IN
       IF DraftRejected(draftInternal) THEN HardFailure(L1, EmptyResponseError)
       ELSE EmitDraft([L1 EXCEPT !.draftInternal = draftInternal,
                                 !.draftDisplay = stripIncompleteMarker(draftInternal),
                                 !.adopted = <<draftInternal>>])

\* the observer call of the draft settled (605-611, 662)
AfterDraftObserver(L, threw, e) ==
  LET L1 == ObserverSettled(L, threw) IN
  IF threw THEN HardFailure(L1, e) ELSE AfterDraftEvent(L1)

\* entry of respondMention up to the first await (595-599)
StartMention(L, e) ==
  LET refineConfig == getRefineConfig(e) IN
  IssueCall([L EXCEPT !.refineConfig = refineConfig],
            [stage |-> "draft", draft |-> <<>>,
             meta |-> buildMeta(1, refineConfig.totalPasses)],
            "draft_call")

(***************************************************************************)
(* planHangout (hangout.ts 36-45, 69-95, 115-161).  The output of the      *)
(* generator in structured mode is a sequence of lexical tokens: the       *)
(* braces "{" and "}", members of an object ("candidates:[0]",             *)
(* "candidates:[2]", "candidates:[3]": a candidates array of that many     *)
(* entries; "final_message": a non-empty final message; "other": any other *)
(* member), "key:" (a key whose value is the object that follows) and      *)
(* "prose" (text that is no JSON).                                         *)
(***************************************************************************)
CandidateMembers == {"candidates:[0]", "candidates:[2]", "candidates:[3]"}
MemberTokens == CandidateMembers \cup {"final_message", "other"}

CandidateCount(tok) ==
  CASE tok = "candidates:[0]" -> 0
    [] tok = "candidates:[2]" -> 2
    [] tok = "candidates:[3]" -> 3

\* String.prototype.indexOf, 1-based, 0 when absent
IndexOf(s, c) ==
  IF \E i \in 1..Len(s) : s[i] = c
  THEN CHOOSE i \in 1..Len(s) : s[i] = c /\ \A j \in 1..(i - 1) : s[j] # c
  ELSE 0

\* String.prototype.lastIndexOf, 1-based, 0 when absent
LastIndexOf(s, c) ==
  IF \E i \in 1..Len(s) : s[i] = c
  THEN CHOOSE i \in 1..Len(s) : s[i] = c /\ \A j \in (i + 1)..Len(s) : s[j] # c
  ELSE 0

\* the position after the "}" that closes the members starting at j, 0 on a syntax error
RECURSIVE ScanMembers(_, _)
ScanMembers(s, j) ==
  IF j > Len(s) THEN 0
  ELSE IF s[j] = "}" THEN j + 1
  ELSE IF s[j] \in MemberTokens THEN ScanMembers(s, j + 1)
  ELSE IF s[j] = "key:" /\ j + 1 <= Len(s) /\ s[j + 1] = "{"
       THEN LET e == ScanMembers(s, j + 2) IN
            IF e = 0 THEN 0 ELSE ScanMembers(s, e)
  ELSE 0

\* the members of the outermost object: later keys overwrite earlier ones
RECURSIVE TopMembers(_, _, _, _)
TopMembers(s, j, depth, acc) ==
  IF j > Len(s) THEN acc
  ELSE IF s[j] = "{" THEN TopMembers(s, j + 1, depth + 1, acc)
  ELSE IF s[j] = "}" THEN TopMembers(s, j + 1, depth - 1, acc)
  ELSE IF depth = 1 /\ s[j] \in CandidateMembers
       THEN TopMembers(s, j + 1, depth, [acc EXCEPT !.candidates = CandidateCount(s[j])])
  ELSE IF depth = 1 /\ s[j] = "final_message"
       THEN TopMembers(s, j + 1, depth, [acc EXCEPT !.final_message = TRUE])
  ELSE TopMembers(s, j + 1, depth, acc)

\* JSON.parse of a text that starts with "{": the parsed object, or not valid
JSONparse(jsonText) ==
  IF jsonText # <<>> /\ jsonText[1] = "{" /\ ScanMembers(jsonText, 2) = Len(jsonText) + 1
  THEN TopMembers(jsonText, 1, 0, [valid |-> TRUE, candidates |-> -1, final_message |-> FALSE])
  ELSE NoPlan

NoJsonError ==
  [message |-> <<"N", "o", " ", "J", "S", "O", "N", " ", "o", "b", "j", "e",
                 "c", "t", " ", "f", "o", "u", "n", "d", " ", "i", "n", " ",
                 "c", "o", "d", "e", "x", " ", "o", "u", "t", "p", "u", "t",
                 ".">>,
   stderr |-> Undefined]

\* the SyntaxError of JSON.parse
JsonSyntaxError ==
  [message |-> <<"U", "n", "e", "x", "p", "e", "c", "t", "e", "d", " ", "t",
                 "o", "k", "e", "n", " ", "i", "n", " ", "J", "S", "O", "N">>,
   stderr |-> Undefined]

\* the TypeError of plan.candidates.entries() when the plan has no candidates
NoCandidatesError ==
  [message |-> <<"C", "a", "n", "n", "o", "t", " ", "r", "e", "a", "d", " ",
                 "p", "r", "o", "p", "e", "r", "t", "i", "e", "s", " ", "o",
                 "f", " ", "u", "n", "d", "e", "f", "i", "n", "e", "d">>,
   stderr |-> Undefined]

\* tryParseJson that ends the slice at the first "}"
tryParseJsonFirstClose(stdout) ==
  LET start == IndexOf(stdout, "{")
      end == IndexOf(stdout, "}")
  IN IF start = 0 \/ end = 0 \/ end <= start
     THEN [threw |-> TRUE, err |-> NoJsonError, plan |-> NoPlan]
     ELSE LET plan == JSONparse(SubSeq(stdout, start, end)) IN
          IF plan.valid THEN [threw |-> FALSE, err |-> NoError, plan |-> plan]
          ELSE [threw |-> TRUE, err |-> JsonSyntaxError, plan |-> NoPlan]

\* tryParseJson (36-45): the parsed plan, or the error thrown
tryParseJson(stdout) ==
  LET start == IndexOf(stdout, "{")
      end == LastIndexOf(stdout, "}")
  IN IF start = 0 \/ end = 0 \/ end <= start
     THEN [threw |-> TRUE, err |-> NoJsonError, plan |-> NoPlan]
     ELSE LET plan == JSONparse(SubSeq(stdout, start, end)) IN
          IF plan.valid THEN [threw |-> FALSE, err |-> NoError, plan |-> plan]
          ELSE [threw |-> TRUE, err |-> JsonSyntaxError, plan |-> NoPlan]

\* formatHangoutMessage (69-95): the header, a line per candidate, the final message
formatHangoutMessage(plan) ==
  <<"header: candidates (3)">>
    \o [i \in 1..plan.candidates |-> "candidate"]
    \o (IF plan.final_message THEN <<"final message">> ELSE <<>>)

\* the body of one try block (127-129, 134-136): the value returned, or the error thrown
Attempt(o) ==
  IF o.fails THEN [threw |-> TRUE, err |-> o.err, result |-> NoResult]
  ELSE LET parsed == tryParseJson(o.stdout) IN
       IF parsed.threw THEN [threw |-> TRUE, err |-> parsed.err, result |-> NoResult]
       ELSE IF parsed.plan.candidates < 0
       THEN [threw |-> TRUE, err |-> NoCandidatesError, result |-> NoResult]
       ELSE [threw |-> FALSE, err |-> NoError,
             result |-> [ok |-> TRUE, text |-> formatHangoutMessage(parsed.plan),
                         refined |-> FALSE, raw |-> parsed.plan, debug |-> NoDebug]]

BasePrompt == "hangout prompt"
JsonOnlyDirective == "IMPORTANT: Output JSON ONLY. Do not include any other text."
ApologyHangout == "Could not generate a proposal."
RetryAdvice == "Shorten the conditions and try again. (example: /hangout Roppongi 5000 4 19:30)"

\* process.env.PLANNER_DEBUG === "1" || process.env.PLANNER_DEBUG === "true" (145-147)
debugEnabled(e) ==
  /\ e.PLANNER_DEBUG.defined
  /\ e.PLANNER_DEBUG.value \in {<<"1">>, <<"t", "r", "u", "e">>}

\* HangoutFailed that rethrows e2 to the caller instead of returning a result
HangoutFailedRethrow(L, e2, e) == [L EXCEPT !.failures = @ + 1, !.pc = "thrown"]

\* the innermost catch (137-158)
HangoutFailed(L, e2, e) ==
  LET hint == diagnoseFailure(e2) IN
  Return([L EXCEPT !.failures = @ + 1],
         [ok |-> FALSE,
          text |-> IF debugEnabled(e)
                   THEN <<ApologyHangout, "Cause: ", hint>>
                   ELSE <<ApologyHangout, RetryAdvice, "Cause: ", hint>>,
          refined |-> FALSE,
          raw |-> NoPlan,
          debug |-> [error |-> Str(L.e1.message),
                     error2 |-> Str(e2.message),
                     stderr |-> Coalesce(e2.stderr, L.e1.stderr)]])

\* the retry (130-134): prompt2 is prompt1 followed by the directive
Retry(L, e1) ==
  IssueCall([L EXCEPT !.e1 = e1, !.failures = @ + 1],
            [stage |-> "attempt2", prompt |-> <<BasePrompt, JsonOnlyDirective>>],
            "attempt2_call")

\* AfterAttempt1 without the retry: a failed first attempt fails the request
AfterAttempt1NoRetry(L, o) ==
  LET L1 == Receive(L)
      a == Attempt(o)
  IN IF a.threw THEN Return([L1 EXCEPT !.failures = @ + 1], NoResult)
     ELSE Return(L1, a.result)

\* AfterAttempt1 that issues the second call whatever the first attempt gave
AfterAttempt1AlwaysRetry(L, o) == Retry(Receive(L), Attempt(o).err)

\* the first call settled (127-134)
AfterAttempt1(L, o) ==
  LET L1 == Receive(L)
      a == Attempt(o)
  IN IF a.threw THEN Retry(L1, a.err) ELSE Return(L1, a.result)

\* AfterAttempt2 that starts the request over when the second attempt fails
AfterAttempt2StartsOver(L, o, e) ==
  IF Attempt(o).threw THEN NewFrame(L.hasObserver) ELSE Return(Receive(L), Attempt(o).result)

\* the second call settled (134-158)
AfterAttempt2(L, o, e) ==
  LET L1 == Receive(L)
      a == Attempt(o)
  IN IF a.threw THEN HangoutFailed(L1, a.err, e) ELSE Return(L1, a.result)

\* entry of planHangout up to the first await (124-127)
StartHangout(L) ==
  IssueCall(L, [stage |-> "attempt1", prompt |-> <<BasePrompt>>], "attempt1_call")

(***************************************************************************)
(* The inputs that are tried: the process environment, the outcomes of the *)
(* generator (a stub with one outcome per call) and the errors of the      *)
(* observer.                                                               *)
(***************************************************************************)
ErrNotFound == [message |-> <<"s", "p", "a", "w", "n", " ", "c", "o", "d", "e", "x", " ", "E", "N", "O", "E", "N", "T">>, stderr |-> Undefined]
ErrAuth == [message |-> <<"e", "x", "i", "t", " ", "1">>, stderr |-> Str(<<"N", "o", "t", " ", "l", "o", "g", "g", "e", "d", " ", "i", "n">>)]
ErrTimeout == [message |-> <<"c", "o", "d", "e", "x", " ", "t", "i", "m", "e", "d", " ", "o", "u", "t">>, stderr |-> Str(<<>>)]
ErrGeneric == [message |-> <<"e", "x", "i", "t", " ", "1">>, stderr |-> Str(<<"b", "o", "o", "m">>)]
\* what the observer of app/index.ts rejects with when the chat update fails
ErrObserver == [message |-> <<"r", "a", "t", "e", "l", "i", "m", "i", "t", "e", "d">>, stderr |-> Undefined]

Marked(t) == t \o INCOMPLETE_MARKER \o INCOMPLETE_SUFFIX

MentionStdouts ==
  { <<" ", "\n">>,
    <<"a">>,
    Marked(<<"a", " ">>) \o <<"\n">>,
    Marked(<<"b", "\n", "\n", "\n", " ", "bullet", "a">>) }

MentionOutcomes == {Fail(ErrTimeout)} \cup {Ok(t) : t \in MentionStdouts}

HangoutStdouts ==
  { <<"{", "candidates:[3]", "final_message", "}">>,
    <<"prose", "{", "candidates:[3]", "key:", "{", "other", "}", "}", "prose">>,
    <<"{", "candidates:[2]", "}">>,
    <<"{", "other", "}">>,
    <<"{", "candidates:[3]", "}", "prose", "{", "other", "}">>,
    <<"}", "prose", "{">>,
    <<"prose">> }

HangoutOutcomes == {Fail(ErrAuth), Fail(ErrGeneric)} \cup {Ok(t) : t \in HangoutStdouts}

RefineValues == {Undefined, Str(<<"0">>), Str(<<"f", "a", "l", "s", "e">>), Str(<<"1">>)}

RefineMaxValues ==
  {Undefined, Str(<<"a", "b", "c">>), Str(<<"-", "1">>)}
    \cup {Str(<<Digits[n + 1]>>) : n \in 0..MaxEnvMax}

DebugValues == {Undefined, Str(<<"1">>), Str(<<"0">>)}

MentionEnvs ==
  [CODEX_REFINE : RefineValues, CODEX_REFINE_MAX : RefineMaxValues, PLANNER_DEBUG : {Undefined}]

HangoutEnvs ==
  [CODEX_REFINE : {Undefined}, CODEX_REFINE_MAX : {Undefined}, PLANNER_DEBUG : DebugValues]

(***************************************************************************)
(* The errors diagnoseFailure is tried on: the message is made of up to    *)
(* MaxFragments fragments, the stderr is absent or one fragment.  The      *)
(* fragments are the keywords, in the letter case the generator process    *)
(* reports them in, and pieces that make a keyword only when joined.       *)
(***************************************************************************)
MaxFragments == 2

Fragments ==
  { <<"E", "N", "O", "E", "N", "T">>,
    <<"s", "p", "a", "w", "n", " ", "c", "o", "d", "e", "x">>,
    <<"l", "o", "g", "i", "n">>,
    <<"N", "o", "t", " ", "l", "o", "g", "g", "e", "d", " ", "i", "n">>,
    <<"A", "u", "t", "h">>,
    <<"t", "i", "m", "e", "d">>,
    <<" ", "o", "u", "t">>,
    <<"b", "o", "o", "m">> }

RECURSIVE Joined(_)
Joined(n) ==
  IF n = 0 THEN {<<>>}
  ELSE Joined(n - 1) \cup {m \o f : m \in Joined(n - 1), f \in Fragments}

DiagErrors ==
  [message : Joined(MaxFragments), stderr : {Undefined} \cup {Str(f) : f \in Fragments}]

(***************************************************************************)
(* The state: the process environment, and per request its kind, the       *)
(* outcomes the generator will give to its calls, in order, and its frame. *)
(***************************************************************************)
VARIABLES env, kind, script, frame

vars == <<env, kind, script, frame>>

Requests == {1}

\* one respondMention request, the stub holding an outcome for every pass it can make
InitMention ==
  /\ env \in MentionEnvs
  /\ kind = [r \in Requests |-> "mention"]
  /\ script \in [Requests -> [1..getRefineConfig(env).totalPasses -> MentionOutcomes]]
  /\ frame \in [Requests -> {NewFrame(o) : o \in BOOLEAN}]

\* one planHangout request, the stub holding an outcome for both attempts
InitHangout ==
  /\ env \in HangoutEnvs
  /\ kind = [r \in Requests |-> "hangout"]
  /\ script \in [Requests -> [1..2 -> HangoutOutcomes]]
  /\ frame = [r \in Requests |-> NewFrame(FALSE)]

Init == InitMention \/ InitHangout

\* the outcome of the call in flight
Outcome(r) == script[r][frame[r].received + 1]

\* Resume with the current text kept in a variable of the module, shared by all requests
ResumeShared(r, L) ==
  /\ frame' = [q \in DOMAIN frame |->
                 IF q = r THEN L
                 ELSE [frame[q] EXCEPT !.currentInternal = L.currentInternal,
                                       !.currentDisplay = L.currentDisplay]]
  /\ UNCHANGED <<env, kind, script>>

\* request r runs up to its next await or return; its locals are its own
Resume(r, L) ==
  /\ frame' = [frame EXCEPT ![r] = L]
  /\ UNCHANGED <<env, kind, script>>

MentionStart(r) ==
  /\ kind[r] = "mention"
  /\ frame[r].pc = "idle"
  /\ Resume(r, StartMention(frame[r], env))

DraftReturn(r) ==
  /\ frame[r].pc = "draft_call"
  /\ Resume(r, AfterDraftCall(frame[r], Outcome(r)))

DraftObserverReturn(r) ==
  /\ frame[r].pc = "draft_observer"
  /\ \E threw \in BOOLEAN : Resume(r, AfterDraftObserver(frame[r], threw, ErrObserver))

RefineReturn(r) ==
  /\ frame[r].pc = "refine_call"
  /\ Resume(r, AfterRefineCall(frame[r], Outcome(r)))

RefineObserverReturn(r) ==
  /\ frame[r].pc = "refine_observer"
  /\ \E threw \in BOOLEAN : Resume(r, AfterRefineObserver(frame[r], threw))

HangoutStart(r) ==
  /\ kind[r] = "hangout"
  /\ frame[r].pc = "idle"
  /\ Resume(r, StartHangout(frame[r]))

Attempt1Return(r) ==
  /\ frame[r].pc = "attempt1_call"
  /\ Resume(r, AfterAttempt1(frame[r], Outcome(r)))

Attempt2Return(r) ==
  /\ frame[r].pc = "attempt2_call"
  /\ Resume(r, AfterAttempt2(frame[r], Outcome(r), env))

Next ==
  \E r \in Requests :
    \/ MentionStart(r)
    \/ DraftReturn(r)
    \/ DraftObserverReturn(r)
    \/ RefineReturn(r)
    \/ RefineObserverReturn(r)
    \/ HangoutStart(r)
    \/ Attempt1Return(r)
    \/ Attempt2Return(r)

Spec == Init /\ [][Next]_vars

(***************************************************************************)
(* Requests under the scheduling of the event loop: a Boundary call or an  *)
(* observer call that was issued settles eventually, and the continuation  *)
(* that awaits it then runs.  One request of either kind, a respondMention *)
(* request having up to MaxLiveRefines refine passes.                      *)
(*                                                                         *)
(* Settles(r) is the step of a request that has not returned.  It is       *)
(* enabled exactly when r has not returned: an idle request can start, and *)
(* every await of the code is followed by a continuation.  Its first       *)
(* disjunct only witnesses that the frame of such a request can change, so *)
(* that ENABLED is decided without running the continuation; the steps of  *)
(* a behaviour are steps of Next, and those of r satisfy the second        *)
(* disjunct.                                                               *)
(***************************************************************************)
MaxLiveRefines == 2

LiveEnvs ==
  {[CODEX_REFINE |-> v,
    CODEX_REFINE_MAX |-> Str(<<Digits[MaxLiveRefines + 1]>>),
    PLANNER_DEBUG |-> Undefined] : v \in {Undefined, Str(<<"0">>)}}

LiveMentionOutcomes ==
  {Fail(ErrTimeout), Ok(<<"a">>), Ok(Marked(<<"a">>)), Ok(Marked(<<"b">>))}

LiveHangoutOutcomes ==
  {Fail(ErrAuth), Ok(<<"{", "candidates:[3]", "final_message", "}">>), Ok(<<"{", "other", "}">>)}

LiveScripts(k, e) ==
  IF k = "mention"
  THEN [1..getRefineConfig(e).totalPasses -> LiveMentionOutcomes]
  ELSE [1..2 -> LiveHangoutOutcomes]

InitLive ==
  /\ env \in LiveEnvs
  /\ \E k \in {"mention", "hangout"} :
       /\ kind = [r \in Requests |-> k]
       /\ script \in [Requests -> LiveScripts(k, env)]
       /\ frame \in [Requests -> {NewFrame(o) : o \in IF k = "mention" THEN BOOLEAN ELSE {FALSE}}]

Settles(r) ==
  /\ frame[r].pc # "done"
  /\ UNCHANGED <<env, kind, script>>
  /\ \/ frame' = [frame EXCEPT ![r].pc = "done"]
     \/ frame'[r] # frame[r]

SpecLive == InitLive /\ [][Next]_vars /\ \A r \in Requests : WF_vars(Settles(r))

(***************************************************************************)
(* Requests that fail: a respondMention request whose draft call rejects   *)
(* and a planHangout request whose two calls reject, with errors drawn     *)
(* from DiagErrors, so that both copies of diagnoseFailure are applied to  *)
(* each of them.                                                           *)
(***************************************************************************)
InitDiagnoseMention ==
  /\ env \in {e \in MentionEnvs : ~getRefineConfig(e).enabled /\ ~e.CODEX_REFINE_MAX.defined}
  /\ kind = [r \in Requests |-> "mention"]
  /\ script \in [Requests -> {<<Fail(e)>> : e \in DiagErrors}]
  /\ frame = [r \in Requests |-> NewFrame(TRUE)]

InitDiagnoseHangout ==
  /\ env \in HangoutEnvs
  /\ kind = [r \in Requests |-> "hangout"]
  /\ script \in [Requests -> {<<Fail(ErrGeneric), Fail(e)>> : e \in DiagErrors}]
  /\ frame = [r \in Requests |-> NewFrame(FALSE)]

InitDiagnose == InitDiagnoseMention \/ InitDiagnoseHangout

NextDiagnose ==
  \E r \in Requests :
    \/ MentionStart(r)
    \/ DraftReturn(r)
    \/ HangoutStart(r)
    \/ Attempt1Return(r)
    \/ Attempt2Return(r)

SpecDiagnose == InitDiagnose /\ [][NextDiagnose]_vars

(***************************************************************************)
(* Two requests in one process: the handlers of app/index.ts run           *)
(* interleaved at their awaits.  Request 1 is a respondMention request,    *)
(* request 2 another one or a planHangout request; the handler of          *)
(* app_mention always supplies the observer.                               *)
(***************************************************************************)
Pair == {1, 2}

MaxConcurrentRefines == 2

ConcurrentEnvs ==
  {[CODEX_REFINE |-> Undefined,
    CODEX_REFINE_MAX |-> Str(<<Digits[MaxConcurrentRefines + 1]>>),
    PLANNER_DEBUG |-> Undefined]}

ConcurrentMentionOutcomes ==
  {Fail(ErrTimeout), Ok(<<"a">>), Ok(Marked(<<"b", " ">>))}

ConcurrentHangoutOutcomes ==
  {Fail(ErrAuth), Ok(<<"{", "candidates:[3]", "final_message", "}">>), Ok(<<"prose">>)}

ScriptsOf(k, e) ==
  IF k = "mention"
  THEN [1..getRefineConfig(e).totalPasses -> ConcurrentMentionOutcomes]
  ELSE [1..2 -> ConcurrentHangoutOutcomes]

InitConcurrent ==
  /\ env \in ConcurrentEnvs
  /\ kind \in {<<"mention", "mention">>, <<"mention", "hangout">>}
  /\ \E s1 \in ScriptsOf(kind[1], env), s2 \in ScriptsOf(kind[2], env) : script = <<s1, s2>>
  /\ frame = [r \in Pair |-> NewFrame(kind[r] = "mention")]

NextConcurrent ==
  \E r \in Pair :
    \/ MentionStart(r)
    \/ DraftReturn(r)
    \/ DraftObserverReturn(r)
    \/ RefineReturn(r)
    \/ RefineObserverReturn(r)
    \/ HangoutStart(r)
    \/ Attempt1Return(r)
    \/ Attempt2Return(r)

SpecConcurrent == InitConcurrent /\ [][NextConcurrent]_vars

(***************************************************************************)
(* Requests that make every pass of their configuration: CODEX_REFINE_MAX  *)
(* is 1..MaxScheduleRefines and every output of the generator carries the  *)
(* marker, so that the prompt metadata of every pass of every totalPasses  *)
(* in 2..MaxScheduleRefines + 1 is built.                                  *)
(***************************************************************************)
MaxScheduleRefines == 6

ScheduleEnvs ==
  {[CODEX_REFINE |-> Undefined,
    CODEX_REFINE_MAX |-> Str(<<Digits[n + 1]>>),
    PLANNER_DEBUG |-> Undefined] : n \in 1..MaxScheduleRefines}

ScheduleOutcomes == {Ok(Marked(<<"a", " ">>)), Ok(Marked(<<"b", " ">>))}

InitSchedule ==
  /\ env \in ScheduleEnvs
  /\ kind = [r \in Requests |-> "mention"]
  /\ script \in [Requests -> [1..getRefineConfig(env).totalPasses -> ScheduleOutcomes]]
  /\ frame \in [Requests -> {NewFrame(o) : o \in BOOLEAN}]

NextSchedule ==
  \E r \in Requests :
    \/ MentionStart(r)
    \/ DraftReturn(r)
    \/ DraftObserverReturn(r)
    \/ RefineReturn(r)
    \/ RefineObserverReturn(r)

SpecSchedule == InitSchedule /\ [][NextSchedule]_vars

(***************************************************************************)
(* Requests under every configuration of the refinement: the values of     *)
(* CODEX_REFINE and CODEX_REFINE_MAX that are tried, the latter with the   *)
(* integer Number.parseInt(value, 10) gives for it (0: not a number).      *)
(***************************************************************************)
MaxConfigCount == 3

ConfigToggles ==
  {Undefined, Str(<<>>), Str(<<"0">>), Str(<<"f", "a", "l", "s", "e">>), Str(<<"F", "A", "L", "S", "E">>), Str(<<"1">>), Str(<<"t", "r", "u", "e">>)}

ConfigCounts ==
  { <<Undefined, 0>>,
    <<Str(<<>>), 0>>,
    <<Str(<<"a", "b", "c">>), 0>>,
    <<Str(<<"-", "1">>), -1>>,
    <<Str(<<"0">>), 0>>,
    <<Str(<<"0", "x", "3">>), 0>>,
    <<Str(<<"+", "2">>), 2>>,
    <<Str(<<" ", "2">>), 2>>,
    <<Str(<<"2", "x">>), 2>>,
    <<Str(<<"1", ".", "5">>), 1>>,
    <<Str(<<"1", "2">>), 12>> }
    \cup {<<Str(<<Digits[n + 1]>>), n>> : n \in 1..MaxConfigCount}

ConfigEnvs ==
  {[CODEX_REFINE |-> t, CODEX_REFINE_MAX |-> c[1], PLANNER_DEBUG |-> Undefined] :
     t \in ConfigToggles, c \in ConfigCounts}

InitConfig ==
  /\ env \in ConfigEnvs
  /\ kind = [r \in Requests |-> "mention"]
  /\ script = [r \in Requests |-> [i \in 1..getRefineConfig(env).totalPasses |-> Ok(<<"a">>)]]
  /\ frame = [r \in Requests |-> NewFrame(FALSE)]

NextConfig ==
  \E r \in Requests :
    \/ MentionStart(r)
    \/ DraftReturn(r)
    \/ RefineReturn(r)

SpecConfig == InitConfig /\ [][NextConfig]_vars

(***************************************************************************)
(* Requests on generated texts of every shape: the output of the draft     *)
(* call is made of up to MaxPieces pieces, among them white space, the     *)
(* marker alone, the marker with its suffix, and the two halves of the     *)
(* text the pattern matches, which make a match only when joined.          *)
(* Refinement is switched off: the draft is formatted, stripped, delivered *)
(* to the observer and returned.                                           *)
(***************************************************************************)
MaxPieces == 4

PatternHead == SubSeq(INCOMPLETE_MARKER, 1, 2)
PatternRest == SubSeq(INCOMPLETE_MARKER, 3, Len(INCOMPLETE_MARKER)) \o SuffixHead

Pieces ==
  { <<"a">>, <<" ">>, <<"\n">>,
    INCOMPLETE_MARKER,
    INCOMPLETE_MARKER \o INCOMPLETE_SUFFIX,
    PatternHead,
    PatternRest }

RECURSIVE Pieced(_)
Pieced(n) ==
  IF n = 0 THEN {<<>>}
  ELSE Pieced(n - 1) \cup {t \o p : t \in Pieced(n - 1), p \in Pieces}

TextEnvs ==
  {[CODEX_REFINE |-> Str(<<"0">>), CODEX_REFINE_MAX |-> Undefined, PLANNER_DEBUG |-> Undefined]}

InitTexts ==
  /\ env \in TextEnvs
  /\ kind = [r \in Requests |-> "mention"]
  /\ script \in [Requests -> {<<Ok(t)>> : t \in Pieced(MaxPieces)}]
  /\ frame = [r \in Requests |-> NewFrame(TRUE)]

NextTexts ==
  \E r \in Requests :
    \/ MentionStart(r)
    \/ DraftReturn(r)
    \/ DraftObserverReturn(r)

SpecTexts == InitTexts /\ [][NextTexts]_vars

(***************************************************************************)
(* planHangout requests on outputs of every shape: the output of the first *)
(* call is any sequence of up to MaxTokens tokens; the second call fails.  *)
(***************************************************************************)
MaxTokens == 5

Tokens == {"{", "}", "candidates:[3]", "other", "key:", "prose"}

RECURSIVE TokenTexts(_)
TokenTexts(n) ==
  IF n = 0 THEN {<<>>}
  ELSE TokenTexts(n - 1) \cup {Append(t, c) : t \in TokenTexts(n - 1), c \in Tokens}

InitExtract ==
  /\ env \in {e \in HangoutEnvs : ~e.PLANNER_DEBUG.defined}
  /\ kind = [r \in Requests |-> "hangout"]
  /\ script \in [Requests -> {<<Ok(t), Fail(ErrGeneric)>> : t \in TokenTexts(MaxTokens)}]
  /\ frame = [r \in Requests |-> NewFrame(FALSE)]

NextExtract ==
  \E r \in Requests :
    \/ HangoutStart(r)
    \/ Attempt1Return(r)
    \/ Attempt2Return(r)

SpecExtract == InitExtract /\ [][NextExtract]_vars

(***************************************************************************)
(* Properties.                                                             *)
(***************************************************************************)
IsMention(r) == kind[r] = "mention"
IsHangout(r) == kind[r] = "hangout"
Done(r) == frame[r].pc = "done"

\* the text respondMention makes of the stdout of an outcome
Formatted(o) == formatMentionReply(Trim(o.stdout))

\* the draft call of request r fails or gives a text that is empty once formatted
DraftBad(r) == script[r][1].fails \/ Formatted(script[r][1]) = <<>>

\* the error the draft of request r fails with
DraftError(r) == IF script[r][1].fails THEN script[r][1].err ELSE EmptyResponseError

\* the outcome request r received last
LastOutcome(r) == script[r][frame[r].received]

Last(s) == s[Len(s)]

\* C1: a respondMention request makes at least 1 and at most totalPasses =
\* 1 + maxRefines boundary calls, and exactly one when refinement is disabled.
C1_InvocationBounds ==
  \A r \in Requests :
    IsMention(r) =>
      LET L == frame[r]
          cfg == getRefineConfig(env)
      IN /\ Len(L.calls) <= 1 + cfg.maxRefines
         /\ L.pc # "idle" => L.refineConfig.totalPasses = 1 + cfg.maxRefines
         /\ Done(r) => Len(L.calls) >= 1
         /\ Done(r) /\ ~cfg.enabled => Len(L.calls) = 1

\* a finished request that made every pass of a configuration with refinement
C1_Witness ==
  \E r \in Requests :
    /\ IsMention(r) /\ Done(r)
    /\ frame[r].refineConfig.maxRefines = DEFAULT_MAX_REFINES
    /\ Len(frame[r].calls) = 1 + DEFAULT_MAX_REFINES

\* C2: the boundary calls of a request are strictly sequential: never two in
\* flight, and while the call of pass k+1 is in flight the outcomes of all
\* earlier passes have been received and every observer call has settled.
C2_Sequential ==
  \A r \in Requests :
    LET L == frame[r] IN
    /\ L.inflight \in {0, 1}
    /\ Len(L.calls) = L.received + L.inflight
    /\ L.inflight = 1 => ~L.obsInFlight /\ L.obsReturned = Len(L.events)
    /\ IsMention(r) => \A i \in 1..Len(L.calls) : L.calls[i].meta.pass = i

\* the call of the third pass is in flight after two events were delivered
C2_Witness ==
  \E r \in Requests :
    /\ IsMention(r)
    /\ frame[r].inflight = 1
    /\ Len(frame[r].calls) = 3
    /\ Len(frame[r].events) = 2

\* C3: if the draft call fails or its formatted output is empty, the request
\* returns ok: false with the apology, the diagnosed hint and the debug record,
\* and it issues no refine call and calls the observer for no event.
C3_HardFailure ==
  \A r \in Requests :
    IsMention(r) /\ frame[r].received >= 1 /\ DraftBad(r) =>
      LET L == frame[r] IN
      /\ Done(r)
      /\ ~L.result.ok
      /\ L.result.text = <<ApologyMention, diagnoseFailure(DraftError(r))>>
      /\ L.result.debug.error = Str(DraftError(r).message)
      /\ L.result.debug.stderr = DraftError(r).stderr
      /\ Len(L.calls) = 1
      /\ L.events = <<>>

\* a request whose draft output is white space only has failed
C3_Witness ==
  \E r \in Requests :
    /\ IsMention(r) /\ Done(r)
    /\ ~script[r][1].fails
    /\ script[r][1].stdout # <<>>
    /\ Formatted(script[r][1]) = <<>>
    /\ ~frame[r].result.ok

\* C4: if the boundary call of a refine pass fails, no further call is issued
\* and the request returns ok: true with the display text of the text adopted
\* last; that is the draft, with refined: false, when no refinement was adopted.
C4_RefineFailureNonFatal ==
  \A r \in Requests :
    IsMention(r) /\ frame[r].received >= 2 /\ LastOutcome(r).fails =>
      LET L == frame[r] IN
      /\ Done(r)
      /\ Len(L.calls) = L.received
      /\ L.result.ok
      /\ L.result.text = stripIncompleteMarker(Last(L.adopted))
      /\ Len(L.adopted) = 1 =>
           /\ L.result.text = stripIncompleteMarker(Formatted(script[r][1]))
           /\ ~L.result.refined

\* a refine call fails after a refinement was adopted
C4_Witness ==
  \E r \in Requests :
    /\ IsMention(r) /\ Done(r)
    /\ frame[r].received >= 3
    /\ LastOutcome(r).fails
    /\ Len(frame[r].adopted) >= 2

\* the run of respondMention on the outcomes sc with an observer that never throws
QuietStep(L, sc) ==
  CASE L.pc = "draft_call" -> AfterDraftCall(L, sc[L.received + 1])
    [] L.pc = "draft_observer" -> AfterDraftObserver(L, FALSE, ErrObserver)
    [] L.pc = "refine_call" -> AfterRefineCall(L, sc[L.received + 1])
    [] L.pc = "refine_observer" -> AfterRefineObserver(L, FALSE)

RECURSIVE RunQuiet(_, _)
RunQuiet(L, sc) == IF L.pc = "done" THEN L ELSE RunQuiet(QuietStep(L, sc), sc)

QuietRun(r) == RunQuiet(StartMention(NewFrame(frame[r].hasObserver), env), script[r])

\* the output o is a non-empty text with / without the completion marker
HasMarker(o) == ~o.fails /\ Includes(Formatted(o), INCOMPLETE_MARKER)
NoMarker(o) == ~o.fails /\ Formatted(o) # <<>> /\ ~Includes(Formatted(o), INCOMPLETE_MARKER)

\* C5: after a successful refine pass, if the current internal text has no
\* marker the request stops at once - no further call, no further event - and
\* returns ok: true with the current display text; with the outputs
\* [draft with marker, refined without marker] and maxRefines >= 1 there are
\* exactly 2 calls and exactly 2 progress events.
C5_Convergence ==
  \A r \in Requests :
    IsMention(r) =>
      LET L == frame[r] IN
      /\ /\ L.received >= 2
         /\ ~LastOutcome(r).fails
         /\ ~Includes(L.currentInternal, INCOMPLETE_MARKER)
         => /\ Len(L.calls) = L.received
            /\ L.pc \in {"refine_observer", "done"}
            /\ \A i \in 1..Len(L.events) : L.events[i].pass <= L.received
            /\ Done(r) => L.result.ok /\ L.result.text = L.currentDisplay
      /\ /\ Done(r)
         /\ L.hasObserver
         /\ L.refineConfig.maxRefines >= 1
         /\ HasMarker(script[r][1])
         /\ NoMarker(script[r][2])
         => Len(L.calls) = 2 /\ Len(L.events) = 2

\* C6: if every boundary call succeeds with a non-empty text that has the
\* marker, the request makes exactly 1 + maxRefines calls and returns ok: true
\* with the marker-stripped form of the text adopted last.
C6_Exhaustion ==
  \A r \in Requests :
    IsMention(r) /\ Done(r) /\ (\A i \in DOMAIN script[r] : HasMarker(script[r][i])) =>
      LET L == frame[r] IN
      /\ Len(L.calls) = 1 + L.refineConfig.maxRefines
      /\ L.result.ok
      /\ L.result.text = stripIncompleteMarker(Last(L.adopted))

\* C7: a run that returns ok: true has refined = true if and only if the
\* returned text differs from the text of the draft.
C7_RefinedFlag ==
  \A r \in Requests :
    IsMention(r) /\ Done(r) /\ frame[r].result.ok =>
      (frame[r].result.refined <=> frame[r].result.text # frame[r].draftDisplay)

\* C8: the progress events of a request come in strictly increasing pass
\* order, at most one per pass; the first is the draft event of pass 1, the
\* later ones are refined events of passes 2..totalPasses; there are at most
\* totalPasses observer calls.
C8_EventOrder ==
  \A r \in Requests :
    IsMention(r) =>
      LET ev == frame[r].events
          total == 1 + getRefineConfig(env).maxRefines
      IN /\ Len(ev) <= total
         /\ \A i \in 1..Len(ev) :
              /\ ev[i].totalPasses = total
              /\ i = 1 => ev[i].stage = "draft" /\ ev[i].pass = 1
              /\ i > 1 => ev[i].stage = "refined" /\ ev[i].pass \in 2..total
              /\ \A j \in (i + 1)..Len(ev) : ev[i].pass < ev[j].pass

\* three events were delivered, not all in consecutive passes
C8_Witness ==
  \E r \in Requests :
    /\ IsMention(r)
    /\ Len(frame[r].events) = 3
    /\ frame[r].events[3].pass > 3

\* C9: when the observer throws for an event, the request still makes the
\* remaining passes and returns what it returns with an observer that never
\* throws.
C9_ObserverFailureIgnored ==
  \A r \in Requests :
    IsMention(r) /\ Done(r) =>
      /\ frame[r].result = QuietRun(r).result
      /\ frame[r].calls = QuietRun(r).calls

\* C10: respondMention, with an observer that never throws, returns ok: false
\* exactly when the draft call failed or gave an empty text; planHangout returns
\* ok: false exactly when both of its attempts failed.
C10_RequestFailure ==
  \A r \in Requests :
    Done(r) =>
      /\ IsMention(r) /\ ~frame[r].obsThrew => (~frame[r].result.ok <=> DraftBad(r))
      /\ IsHangout(r) =>
           (~frame[r].result.ok <=> Attempt(script[r][1]).threw /\ Attempt(script[r][2]).threw)

\* a planHangout request whose first attempt failed and whose second succeeded
C10_Witness ==
  \E r \in Requests :
    /\ IsHangout(r) /\ Done(r)
    /\ Attempt(script[r][1]).threw
    /\ frame[r].result.ok

\* C11: planHangout retries exactly once: it makes 1 boundary call when the
\* first attempt succeeds and 2 when the first attempt fails, never more; when
\* the first attempt fails and the second succeeds the result is ok: true with
\* the payload parsed from the second output and the message formatted from it.
C11_RetryOnce ==
  \A r \in Requests :
    IsHangout(r) =>
      LET L == frame[r]
          a1 == Attempt(script[r][1])
          a2 == Attempt(script[r][2])
          plan2 == tryParseJson(script[r][2].stdout).plan
      IN /\ Len(L.calls) <= 2
         /\ L.received >= 1 /\ ~a1.threw => Done(r) /\ Len(L.calls) = 1
         /\ L.received >= 1 /\ a1.threw => Len(L.calls) = 2
         /\ Done(r) => Len(L.calls) = (IF a1.threw THEN 2 ELSE 1)
         /\ Done(r) /\ a1.threw /\ ~a2.threw =>
              /\ L.result.ok
              /\ L.result.raw = plan2
              /\ L.result.text = formatHangoutMessage(plan2)

\* the first output has no JSON object, the second output is a plan, which is returned
C11_Witness ==
  \E r \in Requests :
    /\ IsHangout(r) /\ Done(r)
    /\ ~script[r][1].fails
    /\ tryParseJson(script[r][1].stdout).threw
    /\ Len(frame[r].calls) = 2
    /\ frame[r].result.ok
    /\ frame[r].result.raw.candidates = 3
    /\ frame[r].result.raw.final_message

Hints == {HintNotFound, HintAuth, HintTimeout, HintGeneric}

\* the positions of a request that has neither returned nor thrown
Pending == {"draft_call", "draft_observer", "refine_call", "refine_observer",
            "attempt1_call", "attempt2_call"}

\* C12: neither planHangout nor respondMention (with an observer that never
\* throws) throws to its caller: a request is idle, waiting for a call or an
\* observer, or has returned; and every failure - a failed call, an empty
\* output, an output without JSON or with malformed JSON - that fails the
\* request is returned as ok: false with the apology and one of the four hints.
C12_NeverThrows ==
  \A r \in Requests :
    LET L == frame[r] IN
    /\ L.pc \in {"idle", "done"} \cup Pending
    /\ L.pc \in Pending => L.inflight = 1 \/ L.obsInFlight
    /\ IsMention(r) /\ ~L.obsThrew /\ L.received >= 1 /\ DraftBad(r) =>
         /\ Done(r) /\ ~L.result.ok
         /\ \E h \in Hints : L.result.text = <<ApologyMention, h>>
    /\ IsHangout(r) /\ L.received = 2 /\ Attempt(script[r][2]).threw =>
         /\ Done(r) /\ ~L.result.ok
         /\ L.result.text[1] = ApologyHangout
         /\ Last(L.result.text) \in Hints
    /\ Done(r) /\ ~L.obsThrew /\ ~L.result.ok =>
         /\ L.result.text[1] \in {ApologyMention, ApologyHangout}
         /\ Last(L.result.text) \in Hints

\* malformed JSON in the first output and no JSON in the second: ok: false is returned
C12_Witness ==
  \E r \in Requests :
    /\ IsHangout(r) /\ Done(r)
    /\ ~script[r][1].fails /\ tryParseJson(script[r][1].stdout).err = JsonSyntaxError
    /\ ~script[r][2].fails /\ tryParseJson(script[r][2].stdout).err = NoJsonError
    /\ ~frame[r].result.ok
    /\ Last(frame[r].result.text) = HintGeneric

\* the lower-cased text diagnoseFailure searches: the message, a newline, the stderr
Searched(err) == toLowerCase(err.message \o <<"\n">> \o OrEmpty(err.stderr))

MentionsNotFound(err) ==
  \/ Includes(Searched(err), <<"e", "n", "o", "e", "n", "t">>)
  \/ Includes(Searched(err), <<"s", "p", "a", "w", "n", " ", "c", "o", "d", "e", "x">>)

MentionsAuth(err) ==
  \/ Includes(Searched(err), <<"l", "o", "g", "i", "n">>)
  \/ Includes(Searched(err), <<"n", "o", "t", " ", "l", "o", "g", "g", "e", "d", " ", "i", "n">>)
  \/ Includes(Searched(err), <<"a", "u", "t", "h">>)

MentionsTimeout(err) == Includes(Searched(err), <<"t", "i", "m", "e", "d", " ", "o", "u", "t">>)

\* the error that failed request r, and the hint in the text it returned
FinalError(r) == IF IsMention(r) THEN DraftError(r) ELSE Attempt(script[r][2]).err
ReturnedHint(r) == Last(frame[r].result.text)

\* C13: diagnoseFailure gives exactly one of the four hints for every error,
\* the first that matches the lower-cased message and stderr in the order
\* not-found keywords, authentication keywords, "timed out", generic; an error
\* with both "auth" and "timed out" gets the authentication hint.
C13_DiagnoseOrdered ==
  \A r \in Requests :
    Done(r) /\ ~frame[r].result.ok =>
      LET err == FinalError(r)
          hint == ReturnedHint(r)
      IN /\ hint \in Hints
         /\ hint = diagnoseFailure(err)
         /\ MentionsNotFound(err) => hint = HintNotFound
         /\ ~MentionsNotFound(err) /\ MentionsAuth(err) => hint = HintAuth
         /\ ~MentionsNotFound(err) /\ ~MentionsAuth(err) /\ MentionsTimeout(err) =>
              hint = HintTimeout
         /\ ~MentionsNotFound(err) /\ ~MentionsAuth(err) /\ ~MentionsTimeout(err) =>
              hint = HintGeneric

\* an error that has "auth" and "timed out", in mixed case, got the authentication hint
C13_Witness ==
  \E r \in Requests :
    /\ IsHangout(r) /\ Done(r)
    /\ MentionsAuth(FinalError(r)) /\ MentionsTimeout(FinalError(r))
    /\ FinalError(r).stderr.defined
    /\ FinalError(r).stderr.value # toLowerCase(FinalError(r).stderr.value)
    /\ ReturnedHint(r) = HintAuth

\* the maximum refine-pass count is configured as 0
ConfiguredZero(e) ==
  /\ e.CODEX_REFINE_MAX.defined
  /\ isFinite(parseInt(e.CODEX_REFINE_MAX.value))
  /\ parseInt(e.CODEX_REFINE_MAX.value).n = 0

\* the refinement toggle is switched off
ToggleOff(e) ==
  /\ e.CODEX_REFINE.defined
  /\ e.CODEX_REFINE.value \in {<<"0">>, <<"f", "a", "l", "s", "e">>}

\* C14: configuring the maximum refine-pass count as 0 disables refinement:
\* maxRefines = 0, totalPasses = 1 and only the draft call is made.
C14_ZeroDisables ==
  \A r \in Requests :
    IsMention(r) /\ frame[r].pc # "idle" /\ ConfiguredZero(env) =>
      /\ frame[r].refineConfig.maxRefines = 0
      /\ frame[r].refineConfig.totalPasses = 1
      /\ Len(frame[r].calls) = 1

\* C14 (amended): refinement is disabled - maxRefines = 0, totalPasses = 1,
\* only the draft call - exactly when the refinement toggle is off; a count
\* configured as 0 is not positive and gives the default maxRefines = 4,
\* totalPasses = 5, when the toggle is on.
C14_ToggleDisables ==
  \A r \in Requests :
    IsMention(r) /\ frame[r].pc # "idle" =>
      LET cfg == frame[r].refineConfig IN
      /\ ToggleOff(env) => cfg.maxRefines = 0 /\ cfg.totalPasses = 1 /\ Len(frame[r].calls) = 1
      /\ cfg.maxRefines = 0 => ToggleOff(env)
      /\ ConfiguredZero(env) /\ ~ToggleOff(env) =>
           /\ cfg.maxRefines = DEFAULT_MAX_REFINES
           /\ cfg.totalPasses = 1 + DEFAULT_MAX_REFINES

\* with the count configured as 0 and the toggle on, a refine call was made
C14_Witness ==
  \E r \in Requests :
    /\ IsMention(r) /\ Done(r)
    /\ ConfiguredZero(env) /\ ~ToggleOff(env)
    /\ Len(frame[r].calls) >= 2
    /\ frame[r].calls[2].stage = "refine"

\* one step of a request that runs alone on the outcomes sc; the observer
\* throws at its call number throwAt (0: never)
SoloStep(L, sc, e, throwAt) ==
  CASE L.pc = "draft_call" -> AfterDraftCall(L, sc[L.received + 1])
    [] L.pc = "draft_observer" -> AfterDraftObserver(L, L.obsReturned + 1 = throwAt, ErrObserver)
    [] L.pc = "refine_call" -> AfterRefineCall(L, sc[L.received + 1])
    [] L.pc = "refine_observer" -> AfterRefineObserver(L, L.obsReturned + 1 = throwAt)
    [] L.pc = "attempt1_call" -> AfterAttempt1(L, sc[L.received + 1])
    [] L.pc = "attempt2_call" -> AfterAttempt2(L, sc[L.received + 1], e)

RECURSIVE RunSolo(_, _, _, _)
RunSolo(L, sc, e, throwAt) ==
  IF L.pc = "done" THEN L ELSE RunSolo(SoloStep(L, sc, e, throwAt), sc, e, throwAt)

\* the finished frame of request r run alone, with the same outcomes of the
\* generator and the same behaviour of the observer
Solo(r) ==
  LET L == frame[r]
      start == IF IsMention(r) THEN StartMention(NewFrame(L.hasObserver), env)
               ELSE StartHangout(NewFrame(L.hasObserver))
  IN RunSolo(start, script[r], env, IF L.obsThrew THEN L.obsReturned ELSE 0)

IsPrefix(s, t) == Len(s) <= Len(t) /\ s = SubSeq(t, 1, Len(s))

\* C15: requests that run interleaved at their awaits do not interfere: each
\* makes the calls, delivers the events and returns the result it makes,
\* delivers and returns when it runs alone with the same outcomes of the
\* generator.
C15_NoInterference ==
  \A r \in DOMAIN frame :
    LET L == frame[r]
        solo == Solo(r)
    IN /\ IsPrefix(L.calls, solo.calls)
       /\ IsPrefix(L.events, solo.events)
       /\ Done(r) => L = solo

\* two respondMention requests are suspended in the middle of their refinement
\* with different current texts, and a third is suspended beside a planHangout
C15_Witness ==
  /\ DOMAIN frame = Pair
  /\ IsMention(1) /\ IsMention(2)
  /\ frame[1].pc = "refine_call" /\ frame[1].received = 2
  /\ frame[2].pc = "refine_observer" /\ frame[2].received = 2
  /\ frame[1].currentInternal # frame[2].currentInternal

\* the number of candidate lines of a formatted message
CandidateLines(text) == Cardinality({i \in 1..Len(text) : text[i] = "candidate"})

\* C16: every ok: true result of planHangout has exactly 3 candidates: the
\* candidates array of its payload has 3 entries and its message lists 3.
C16_ThreeCandidates ==
  \A r \in Requests :
    IsHangout(r) /\ Done(r) /\ frame[r].result.ok =>
      /\ frame[r].result.raw.candidates = 3
      /\ CandidateLines(frame[r].result.text) = 3

\* the internal text that is current when pass k of request r starts: the
\* text adopted with the last event of an earlier pass
InternalBefore(r, k) ==
  LET ev == frame[r].events
      i == CHOOSE i \in 1..Len(ev) :
             /\ ev[i].pass < k
             /\ \A j \in 1..Len(ev) : ev[j].pass < k => j <= i
  IN frame[r].adopted[i]

\* C17: a refined event is emitted for a pass exactly when the pass changed
\* the display text: every refined event has a text different from the text
\* of the event delivered before it.
C17_EventOnDisplayChange ==
  \A r \in Requests :
    IsMention(r) =>
      \A i \in 2..Len(frame[r].events) :
        frame[r].events[i].text # frame[r].events[i - 1].text

\* C17 (amended): a refined event is emitted for a pass exactly when the pass
\* changed the internal text, that is when its call gave a non-empty text
\* different from the current internal text; the event carries the display
\* form of the new internal text, which may equal the text of the event before.
C17_EventOnInternalChange ==
  \A r \in Requests :
    IsMention(r) /\ frame[r].hasObserver =>
      LET L == frame[r]
          ev == L.events
      IN /\ Len(ev) = Len(L.adopted)
         /\ \A i \in 2..Len(ev) :
              /\ L.adopted[i] # L.adopted[i - 1]
              /\ L.adopted[i] = Formatted(script[r][ev[i].pass])
              /\ ev[i].text = stripIncompleteMarker(L.adopted[i])
         /\ \A k \in 2..L.received :
              (\E i \in 1..Len(ev) : ev[i].pass = k)
                <=> /\ ~script[r][k].fails
                    /\ Formatted(script[r][k]) # <<>>
                    /\ Formatted(script[r][k]) # InternalBefore(r, k)

\* a refined event that carries the text of the draft event: the pass removed
\* the marker and nothing else
C17_Witness ==
  \E r \in Requests :
    /\ IsMention(r)
    /\ Len(frame[r].events) >= 2
    /\ frame[r].events[2].stage = "refined"
    /\ frame[r].events[2].text = frame[r].events[1].text
    /\ frame[r].events[1].pending /\ ~frame[r].events[2].pending

\* the refine call of request r settles in this step, with a text
SettlesRefine(r) ==
  /\ frame[r].pc = "refine_call"
  /\ frame'[r] # frame[r]
  /\ ~Outcome(r).fails

\* C18: a refine pass that succeeds with the current internal text emits no
\* event and leaves the current text unchanged, and it counts as a pass: the
\* termination test is made after it, and when the marker is still there the
\* next pass is started if one remains, and the request returns if none does.
C18_StalledPassCounts ==
  [][\A r \in Requests :
       SettlesRefine(r) /\ Formatted(Outcome(r)) = frame[r].currentInternal =>
         LET L == frame[r]
             N == frame'[r]
         IN /\ N.events = L.events
            /\ N.currentInternal = L.currentInternal
            /\ N.currentDisplay = L.currentDisplay
            /\ N.adopted = L.adopted
            /\ N.received = L.received + 1
            /\ IF ~Includes(L.currentInternal, INCOMPLETE_MARKER)
               THEN /\ N.pc = "done" /\ N.result.ok
                    /\ N.result.text = L.currentDisplay
                    /\ N.calls = L.calls
               ELSE IF L.attempt + 1 < L.refineConfig.maxRefines
               THEN /\ N.pc = "refine_call"
                    /\ N.attempt = L.attempt + 1
                    /\ Len(N.calls) = Len(L.calls) + 1
                    /\ Last(N.calls).meta.pass = L.received + 2
                    /\ Last(N.calls).draft = L.currentInternal
               ELSE /\ N.pc = "done" /\ N.result.ok
                    /\ N.result.text = L.currentDisplay
                    /\ Len(N.calls) = L.refineConfig.totalPasses]_vars

\* the second pass repeated the draft, which has the marker: no event was
\* delivered for it and the call of the third pass is in flight
C18_Witness ==
  \E r \in Requests :
    /\ IsMention(r) /\ frame[r].hasObserver
    /\ frame[r].pc = "refine_call"
    /\ frame[r].received = 2
    /\ ~script[r][2].fails
    /\ Formatted(script[r][2]) = frame[r].currentInternal
    /\ Len(frame[r].events) = 1
    /\ Len(frame[r].calls) = 3

\* C19: whenever a refine call succeeds with a text that differs from the
\* current internal text, that text is adopted, its marker-stripped form
\* becomes the display text and a refined event with it is emitted for the
\* pass (to the observer, when there is one).
C19_AdoptsEveryDifferent ==
  [][\A r \in Requests :
       SettlesRefine(r) /\ Formatted(Outcome(r)) # frame[r].currentInternal =>
         LET L == frame[r]
             N == frame'[r]
             text == Formatted(Outcome(r))
         IN /\ N.currentInternal = text
            /\ N.currentDisplay = stripIncompleteMarker(text)
            /\ L.hasObserver =>
                 /\ Len(N.events) = Len(L.events) + 1
                 /\ Last(N.events).stage = "refined"
                 /\ Last(N.events).pass = L.received + 1
                 /\ Last(N.events).text = stripIncompleteMarker(text)]_vars

\* C19 (amended): whenever a refine call succeeds with a non-empty text that
\* differs from the current internal text, that text is adopted, its
\* marker-stripped form becomes the display text and a refined event with it is
\* emitted for the pass; a text that is empty once formatted is not adopted.
C19_AdoptsNonEmptyDifferent ==
  [][\A r \in Requests :
       SettlesRefine(r) /\ Formatted(Outcome(r)) # frame[r].currentInternal =>
         LET L == frame[r]
             N == frame'[r]
             text == Formatted(Outcome(r))
         IN IF text # <<>>
            THEN /\ N.currentInternal = text
                 /\ N.currentDisplay = stripIncompleteMarker(text)
                 /\ N.adopted = Append(L.adopted, text)
                 /\ L.hasObserver =>
                      /\ Len(N.events) = Len(L.events) + 1
                      /\ Last(N.events).stage = "refined"
                      /\ Last(N.events).pass = L.received + 1
                      /\ Last(N.events).text = stripIncompleteMarker(text)
            ELSE /\ N.currentInternal = L.currentInternal
                 /\ N.currentDisplay = L.currentDisplay
                 /\ N.adopted = L.adopted
                 /\ N.events = L.events]_vars

\* the third pass gave a new text with the marker: it is adopted, its display
\* form has no marker and is in the event that waits for the observer
C19_Witness ==
  \E r \in Requests :
    /\ IsMention(r)
    /\ frame[r].pc = "refine_observer"
    /\ frame[r].received = 3
    /\ Len(frame[r].adopted) = 3
    /\ frame[r].currentInternal = Formatted(script[r][3])
    /\ Includes(frame[r].currentInternal, INCOMPLETE_MARKER)
    /\ frame[r].currentDisplay # frame[r].currentInternal
    /\ Last(frame[r].events).text = frame[r].currentDisplay

\* C20: the draft event has pending = (enabled and maxRefines > 0); the
\* refined event of pass k has pending = (the adopted internal text has the
\* marker and totalPasses - k > 0), so that the event of the last possible
\* pass has pending = false.
C20_PendingFlag ==
  \A r \in Requests :
    IsMention(r) =>
      LET L == frame[r]
          cfg == getRefineConfig(env)
      IN \A i \in 1..Len(L.events) :
           LET ev == L.events[i] IN
           /\ i = 1 => (ev.pending <=> cfg.enabled /\ cfg.maxRefines > 0)
           /\ i > 1 => (ev.pending <=> /\ Includes(L.adopted[i], INCOMPLETE_MARKER)
                                       /\ cfg.totalPasses - ev.pass > 0)
           /\ i > 1 /\ ev.pass = cfg.totalPasses => ~ev.pending

\* the event of the last possible pass carries a text adopted with the marker
\* and is not pending, after an event that was
C20_Witness ==
  \E r \in Requests :
    /\ IsMention(r)
    /\ Len(frame[r].events) >= 3
    /\ Last(frame[r].events).pass = frame[r].refineConfig.totalPasses
    /\ Includes(Last(frame[r].adopted), INCOMPLETE_MARKER)
    /\ ~Last(frame[r].events).pending
    /\ frame[r].events[2].pending

\* C21: once the draft is accepted the display text is the marker-stripped
\* internal text at every point of the run - draftDisplay of draftInternal,
\* currentDisplay of currentInternal, which is the text adopted last - and
\* the text of every event and of the ok result is that display text.
C21_DisplayDerived ==
  \A r \in Requests :
    IsMention(r) =>
      LET L == frame[r] IN
      /\ L.draftDisplay = stripIncompleteMarker(L.draftInternal)
      /\ L.currentDisplay = stripIncompleteMarker(L.currentInternal)
      /\ L.pc \in {"refine_call", "refine_observer"} => L.currentInternal = Last(L.adopted)
      /\ \A i \in 1..Len(L.events) : L.events[i].text = stripIncompleteMarker(L.adopted[i])
      /\ L.pc = "refine_observer" => Last(L.events).text = L.currentDisplay
      /\ Done(r) /\ L.result.ok => L.result.text = stripIncompleteMarker(Last(L.adopted))

\* a request returned a refined text that was adopted with the marker: the
\* text returned and the text of the last event are its stripped form
C21_Witness ==
  \E r \in Requests :
    /\ IsMention(r) /\ Done(r)
    /\ frame[r].result.ok /\ frame[r].result.refined
    /\ Len(frame[r].events) >= 2
    /\ Includes(frame[r].currentInternal, INCOMPLETE_MARKER)
    /\ frame[r].result.text # frame[r].currentInternal
    /\ frame[r].result.text = Last(frame[r].events).text

\* the internal text of request r that is current after its passes 1..k
RECURSIVE CurrentAfter(_, _)
CurrentAfter(r, k) ==
  IF k = 1 THEN Formatted(script[r][1])
  ELSE LET prev == CurrentAfter(r, k - 1)
           text == Formatted(script[r][k])
       IN IF ~script[r][k].fails /\ text # <<>> /\ text # prev THEN text ELSE prev

\* C22: the call of refine pass k (2 <= k <= totalPasses) is built from the
\* current internal text, marker included, with metadata pass = k, the
\* totalPasses of the request and isFinal true exactly when k = totalPasses;
\* the draft call has pass = 1 and isFinal true exactly when totalPasses = 1.
C22_PromptMetadata ==
  \A r \in Requests :
    IsMention(r) =>
      LET calls == frame[r].calls
          total == 1 + getRefineConfig(env).maxRefines
      IN \A k \in 1..Len(calls) :
           /\ k <= total
           /\ calls[k].meta.pass = k
           /\ calls[k].meta.totalPasses = total
           /\ calls[k].meta.isFinal <=> k = total
           /\ k = 1 => calls[k].stage = "draft" /\ (calls[k].meta.isFinal <=> total = 1)
           /\ k >= 2 => calls[k].stage = "refine" /\ calls[k].draft = CurrentAfter(r, k - 1)

\* the call of the last pass is flagged final and is built from a refined
\* text that carries the marker
C22_Witness ==
  \E r \in Requests :
    LET calls == frame[r].calls IN
    /\ IsMention(r)
    /\ Len(calls) = frame[r].refineConfig.totalPasses
    /\ Len(calls) >= 3
    /\ Last(calls).meta.isFinal
    /\ ~calls[2].meta.isFinal
    /\ Includes(Last(calls).draft, INCOMPLETE_MARKER)
    /\ Last(calls).draft # calls[2].draft

\* C23: for every totalPasses >= 2 and pass in 1..totalPasses the target
\* completeness is 50 for pass 1, 100 for pass totalPasses, and
\* round(50 + 50 * (pass - 1) / (totalPasses - 1)) with halves rounded up; it
\* lies in 50..100 and does not decrease from a pass to the next.
C23_TargetSchedule ==
  \A r \in Requests :
    IsMention(r) =>
      LET calls == frame[r].calls
          total == 1 + getRefineConfig(env).maxRefines
          d == total - 1
      IN total >= 2 =>
           \A p \in 1..Len(calls) :
             LET t == calls[p].meta.targetPercent
                 n == 50 * d + 50 * (p - 1)
             IN /\ p = 1 => t = 50
                /\ p = total => t = 100
                /\ t \in 50..100
                /\ 2 * t * d - d <= 2 * n /\ 2 * n < 2 * t * d + d
                /\ p > 1 => calls[p - 1].meta.targetPercent <= t

\* pass 2 of 5 has the target 62.5, rounded up to 63, and pass 5 was reached
C23_Witness ==
  \E r \in Requests :
    LET calls == frame[r].calls IN
    /\ IsMention(r)
    /\ Len(calls) = 5
    /\ calls[5].meta.totalPasses = 5
    /\ calls[2].meta.targetPercent = 63
    /\ calls[4].meta.targetPercent = 88
    /\ calls[5].meta.targetPercent = 100

\* C24: when totalPasses = 1 the single pass has the target 100 and is flagged
\* final, and the draft event is not pending.
C24_SinglePass ==
  \A r \in Requests :
    IsMention(r) /\ frame[r].pc # "idle" /\ getRefineConfig(env).totalPasses = 1 =>
      LET L == frame[r] IN
      /\ Len(L.calls) = 1
      /\ L.calls[1].meta.pass = 1
      /\ L.calls[1].meta.totalPasses = 1
      /\ L.calls[1].meta.targetPercent = 100
      /\ L.calls[1].meta.isFinal
      /\ Len(L.events) <= 1
      /\ \A i \in 1..Len(L.events) : L.events[i].stage = "draft" /\ ~L.events[i].pending

\* a request with refinement disabled returned its draft after the draft event
C24_Witness ==
  \E r \in Requests :
    /\ IsMention(r) /\ Done(r)
    /\ frame[r].refineConfig.totalPasses = 1
    /\ Len(frame[r].events) = 1
    /\ ~frame[r].events[1].pending
    /\ frame[r].result.ok
    /\ frame[r].calls[1].meta.targetPercent = 100

\* C25: with the refinement toggle on, maxRefines is the configured count
\* when that parses to a positive integer and the default 4 for any other
\* value (unset, empty, not a number, zero, negative); with the toggle off
\* ("0" or "false") maxRefines is 0 whatever the count; totalPasses is
\* 1 + maxRefines.
C25_RefineConfig ==
  \A r \in Requests :
    IsMention(r) /\ frame[r].pc # "idle" =>
      LET cfg == frame[r].refineConfig IN
      /\ cfg.totalPasses = 1 + cfg.maxRefines
      /\ cfg.enabled <=> ~ToggleOff(env)
      /\ ToggleOff(env) => cfg.maxRefines = 0
      /\ \A c \in ConfigCounts :
           c[1] = env.CODEX_REFINE_MAX /\ ~ToggleOff(env) =>
             cfg.maxRefines = (IF c[2] > 0 THEN c[2] ELSE DEFAULT_MAX_REFINES)

\* the toggle is off and the count is a positive integer: maxRefines is 0 and
\* the request returned after its only call
C25_Witness ==
  \E r \in Requests :
    /\ IsMention(r) /\ Done(r)
    /\ env.CODEX_REFINE = Str(<<"f", "a", "l", "s", "e">>)
    /\ env.CODEX_REFINE_MAX = Str(<<"2">>)
    /\ frame[r].refineConfig.maxRefines = 0
    /\ Len(frame[r].calls) = 1

\* the draft of request r was accepted
Accepted(r) == IsMention(r) /\ frame[r].adopted # <<>>

\* C26: stripIncompleteMarker is the identity on every text without the
\* marker, in particular on every formatted output of the generator without
\* the marker, whatever its spaces and line breaks.
C26_StripIdentity ==
  \A r \in Requests :
    Accepted(r) /\ ~Includes(frame[r].draftInternal, INCOMPLETE_MARKER) =>
      frame[r].draftDisplay = frame[r].draftInternal

\* C27: stripIncompleteMarker is idempotent: stripping a stripped text gives
\* the stripped text, also when removing an occurrence of the marker joins
\* the characters around it into a new occurrence.
C27_StripIdempotent ==
  \A r \in Requests :
    Accepted(r) =>
      stripIncompleteMarker(frame[r].draftDisplay) = frame[r].draftDisplay

\* C28: the text of every progress event and of every ok: true result of
\* respondMention does not contain the marker, for every output of the
\* generator.
C28_NoMarkerDisplayed ==
  \A r \in Requests :
    IsMention(r) =>
      /\ \A i \in 1..Len(frame[r].events) :
           ~Includes(frame[r].events[i].text, INCOMPLETE_MARKER)
      /\ Done(r) /\ frame[r].result.ok =>
           ~Includes(frame[r].result.text, INCOMPLETE_MARKER)

\* the positions of the character c in the text s
Positions(s, c) == {i \in 1..Len(s) : s[i] = c}
Least(S) == CHOOSE i \in S : \A j \in S : i <= j
Greatest(S) == CHOOSE i \in S : \A j \in S : j <= i

\* the text s has no "{", or no "}", or its last "}" is not after its first "{"
NoJsonIn(s) ==
  \/ Positions(s, "{") = {}
  \/ Positions(s, "}") = {}
  \/ Greatest(Positions(s, "}")) <= Least(Positions(s, "{"))

\* the text from the first "{" to the last "}" of s, both included
JsonSlice(s) == SubSeq(s, Least(Positions(s, "{")), Greatest(Positions(s, "}")))

ExtractionFailed(r) == ~script[r][1].fails /\ tryParseJson(script[r][1].stdout).threw

\* C30: planHangout makes its second attempt when the call or the extraction
\* of the first attempt failed, and in no other case; the prompt of the second
\* attempt is the prompt of the first, unchanged, followed by the JSON-only
\* directive.
C30_RetryTrigger ==
  \A r \in Requests :
    IsHangout(r) /\ frame[r].received >= 1 =>
      LET calls == frame[r].calls IN
      /\ Len(calls) = 2 <=> script[r][1].fails \/ ExtractionFailed(r)
      /\ Len(calls) = 2 =>
           /\ calls[2].prompt = calls[1].prompt \o <<JsonOnlyDirective>>
           /\ IsPrefix(calls[1].prompt, calls[2].prompt)
           /\ calls[1].prompt # calls[2].prompt

\* C31: whenever the first call of planHangout succeeds and a valid JSON
\* object is parsed from its output, the request succeeds with that payload
\* and makes no second call, whatever the shape of the payload.
C31_ValidJsonSucceeds ==
  \A r \in Requests :
    IsHangout(r) /\ frame[r].received >= 1 /\ ~script[r][1].fails /\ ~ExtractionFailed(r) =>
      /\ Done(r)
      /\ Len(frame[r].calls) = 1
      /\ frame[r].result.ok
      /\ frame[r].result.raw = tryParseJson(script[r][1].stdout).plan

\* the errors of the two attempts of a failed planHangout request
Error1(r) == Attempt(script[r][1]).err
Error2(r) == Attempt(script[r][2]).err

\* C32: a failed planHangout request carries both errors; its hint is the
\* diagnosis of the second error, or of the first when the second gives
\* nothing to diagnose, and the hint and the reported stderr come from the
\* same error.
C32_FailureSource ==
  \A r \in Requests :
    IsHangout(r) /\ Done(r) /\ ~frame[r].result.ok =>
      LET debug == frame[r].result.debug IN
      /\ debug.error = Str(Error1(r).message)
      /\ debug.error2 = Str(Error2(r).message)
      /\ \E src \in {Error2(r), Error1(r)} :
           /\ ReturnedHint(r) = diagnoseFailure(src)
           /\ debug.stderr = src.stderr

\* C33: a failed planHangout request exposes the text of its errors (the
\* messages, the stderr) to the caller only when the debug flag is on; with
\* the flag off the caller gets the apology, the advice with the example of
\* a correct input and the hint, and no error text.
C33_DebugOnly ==
  \A r \in Requests :
    IsHangout(r) /\ Done(r) /\ ~frame[r].result.ok =>
      LET res == frame[r].result IN
      /\ ~debugEnabled(env) =>
           /\ res.text = <<ApologyHangout, RetryAdvice, "Cause: ", ReturnedHint(r)>>
           /\ res.debug = NoDebug
      /\ debugEnabled(env) =>
           /\ res.debug.error = Str(Error1(r).message)
           /\ res.debug.error2 = Str(Error2(r).message)

\* the progress event delivered last to the observer of request r
LastEvent(r) == Last(frame[r].events)

\* C34: whenever a respondMention request with an observer returns ok: true,
\* the returned text is the text of the progress event delivered last.
C34_TextIsLastEvent ==
  \A r \in Requests :
    IsMention(r) /\ Done(r) /\ frame[r].hasObserver /\ frame[r].result.ok =>
      /\ frame[r].events # <<>>
      /\ frame[r].result.text = LastEvent(r).text

\* a request returns the text of a refined event after its last call failed
C34_Witness ==
  \E r \in Requests :
    /\ IsMention(r) /\ Done(r) /\ frame[r].hasObserver /\ frame[r].result.ok
    /\ Len(frame[r].events) >= 2
    /\ LastOutcome(r).fails
    /\ frame[r].result.text = LastEvent(r).text
    /\ frame[r].result.text # frame[r].events[1].text

\* C35: whenever a respondMention request with an observer returns ok: true,
\* the progress event delivered last has pending: false, also when a refine
\* call failed, returned the same text or the passes were exhausted.
C35_LastEventNotPending ==
  \A r \in Requests :
    IsMention(r) /\ Done(r) /\ frame[r].hasObserver /\ frame[r].result.ok =>
      /\ frame[r].events # <<>>
      /\ ~LastEvent(r).pending

\* C36: every progress event and every ok: true result of respondMention
\* carries a non-empty text, also when the output of the generator is the
\* marker alone, with or without its suffix.
C36_NonEmptyText ==
  \A r \in Requests :
    IsMention(r) =>
      /\ \A i \in 1..Len(frame[r].events) : frame[r].events[i].text # <<>>
      /\ Done(r) /\ frame[r].result.ok => frame[r].result.text # <<>>

\* C37: with refinement enabled, a respondMention request whose draft call
\* succeeded with a non-empty text makes at least one refine call, whether
\* the draft holds the marker or not.
C37_RefineFollowsDraft ==
  \A r \in Requests :
    /\ IsMention(r) /\ frame[r].received >= 1 /\ ~DraftBad(r)
    /\ getRefineConfig(env).enabled
    /\ frame[r].pc # "draft_observer"
    => Len(frame[r].calls) >= 2

\* C38: every respondMention and planHangout request terminates with a
\* returned result, provided every Boundary call and every observer call it
\* awaits settles eventually.
C38_Terminates == <>(\A r \in Requests : Done(r) /\ frame[r].inflight = 0 /\ ~frame[r].obsInFlight)

\* a request has returned after the last pass the configuration allows and
\* after its observer took the event of every pass
C38_Witness ==
  \E r \in Requests :
    /\ IsMention(r) /\ Done(r)
    /\ frame[r].result.ok
    /\ frame[r].refineConfig.maxRefines > 0
    /\ frame[r].attempt = frame[r].refineConfig.maxRefines
    /\ frame[r].obsReturned = frame[r].refineConfig.totalPasses

====
